---- MODULE Spec2Model ----
(***************************************************************************)
(* A state-machine model of the plotting sources of caret_analyze:        *)
(*   - LegendManager              (plot/visualize_lib/bokeh/bokeh_source.py)*)
(*   - BokehSourceInterface, LineSource          (same file)               *)
(*   - CallbackSchedulingPlot (plot/callback_scheduling/                   *)
(*                              callback_scheduling_plot.py)               *)
(* Strings that the code transforms (class names, labels) are sequences   *)
(* of one-character strings, so that lower() and the decimal formatting   *)
(* of a counter are computed, not assumed.                                 *)
(***************************************************************************)
EXTENDS Integers, Sequences, FiniteSets, TLC

VARIABLES
    legend_count_map,   \* LegendManager._legend_count_map : class name -> int
    legend_items,       \* LegendManager._legend_items     : list of (label, [renderer])
    legend,             \* LegendManager._legend           : dict object -> label
    labelled,           \* observation: the first label get_label returned for each object
    first_seen,         \* observation: the objects in the order of their first get_label
    ret,                \* observation: the object and return value of the last get_label
    figure_layouts,     \* the Legend pages draw_legends added to its figure
    warnings,           \* the number of logger.warning calls of the last draw_legends
    draw_call,          \* the arguments of the last draw_legends and the entries it saw
    click_policy,       \* figure.legend.click_policy
    add_calls,          \* observation: the number of add_legend calls
    target_objects,     \* CallbackSchedulingPlot._target_objects
    plot_state,         \* how CallbackSchedulingPlot.__init__ ended
    callback_groups,    \* CallbackSchedulingPlot._callback_groups
    fig_call,           \* the arguments of the last figure/show/save
    fig_result,         \* how the last figure/show/save ended
    lib_calls,          \* the visualize_lib.callback_scheduling calls of the last figure
    output,             \* what the last call did with the figure: show(p), save(p, ...)
    self_xaxis_type,    \* LineSource._xaxis_type
    self_frame_min,     \* LineSource._frame_min
    gen_call,           \* the arguments of the last LineSource.generate
    gen_result,         \* how it ended, and the ColumnDataSource it returned
    rect_y_base,        \* CallbackSchedRectSource._rect_y_base, in tenths
    converter,          \* CallbackSchedRectSource._converter is not None
    bar_frame,          \* CallbackSchedBarSource._frame_min and _frame_max
    update_calls,       \* observation: the number of update_rect_y_base calls
    bands,              \* observation: the vertical band of each source generated
    sched_result        \* how the last scheduling generate ended, and its source

legend_vars == <<legend_count_map, legend_items, legend, labelled, first_seen, ret>>
draw_vars == <<figure_layouts, warnings, draw_call, click_policy>>
obs_vars == <<add_calls>>
plot_vars == <<target_objects, plot_state, callback_groups, fig_call, fig_result,
               lib_calls, output>>
source_vars == <<self_xaxis_type, self_frame_min, gen_call, gen_result>>
sched_vars == <<rect_y_base, converter, bar_frame, update_calls, bands, sched_result>>

----------------------------------------------------------------------------
(* Python strings as sequences of characters                               *)

Upper == <<"A","B","C","D","E","F","G","H","I","J","K","L","M",
           "N","O","P","Q","R","S","T","U","V","W","X","Y","Z">>
Lowercase == <<"a","b","c","d","e","f","g","h","i","j","k","l","m",
               "n","o","p","q","r","s","t","u","v","w","x","y","z">>
Digits == <<"0","1","2","3","4","5","6","7","8","9">>

\* str.lower() on one character
LowerChar(c) ==
    IF \E i \in 1..Len(Upper) : Upper[i] = c
    THEN Lowercase[CHOOSE i \in 1..Len(Upper) : Upper[i] = c]
    ELSE c

\* str.lower()
Lower(s) == [i \in 1..Len(s) |-> LowerChar(s[i])]

\* the decimal formatting of a non-negative int inside an f-string
RECURSIVE Str(_)
Str(n) == IF n < 10 THEN <<Digits[n + 1]>>
          ELSE Str(n \div 10) \o <<Digits[(n % 10) + 1]>>

----------------------------------------------------------------------------
(* The objects handed to the LegendManager and to the sources.  Each is a  *)
(* distinct instance (its number); ObjClass is type(o).__name__ and        *)
(* ObjValue is what __eq__ and __hash__ compare.  Objects 1 and 2 are two  *)
(* instances that compare equal; object 5 is an instance of a class whose  *)
(* name differs from TimerCallback in letter case only.                    *)

TimerCallback == <<"T","i","m","e","r","C","a","l","l","b","a","c","k">>
SubscriptionCallback == <<"S","u","b","s","c","r","i","p","t","i","o","n",
                          "C","a","l","l","b","a","c","k">>
timercallback == <<"t","i","m","e","r","c","a","l","l","b","a","c","k">>
CallbackBase == <<"C","a","l","l","b","a","c","k","B","a","s","e">>
Communication == <<"C","o","m","m","u","n","i","c","a","t","i","o","n">>
Publisher == <<"P","u","b","l","i","s","h","e","r">>
Subscription == <<"S","u","b","s","c","r","i","p","t","i","o","n">>

ClassNames == {TimerCallback, SubscriptionCallback, timercallback, CallbackBase,
               Communication, Publisher, Subscription}

ObjTable == <<
    [cls |-> TimerCallback,        value |-> "a"],
    [cls |-> TimerCallback,        value |-> "a"],
    [cls |-> TimerCallback,        value |-> "b"],
    [cls |-> SubscriptionCallback, value |-> "c"],
    [cls |-> timercallback,        value |-> "d"],
    [cls |-> CallbackBase,         value |-> "e"],
    [cls |-> Communication,        value |-> "f"],
    [cls |-> Publisher,            value |-> "g"],
    [cls |-> Subscription,         value |-> "h"] >>

Objects == 1..Len(ObjTable)
ObjClass(o) == ObjTable[o].cls
ObjValue(o) == ObjTable[o].value

\* a == b for two objects (with hash(a) == hash(b))
Equal(a, b) == ObjValue(a) = ObjValue(b)

\* the objects the labelling specification hands to the LegendManager
LegendObjects == {1, 2, 3, 4, 5}
\* the objects the pagination specification registers
DrawObjects == {1}

----------------------------------------------------------------------------
(* A Python dict keyed by objects: a function whose domain is the set of   *)
(* key objects; a key is found by hash and ==.                             *)

\* key in d
Contains(d, o) == \E k \in DOMAIN d : Equal(k, o)

\* the stored key that o finds
KeyOf(d, o) == CHOOSE k \in DOMAIN d : Equal(k, o)

\* d[key]
DictGet(d, o) == d[KeyOf(d, o)]

\* d[key] = v : an equal key keeps the stored key object and takes the value
DictSet(d, o, v) ==
    IF Contains(d, o)
    THEN [d EXCEPT ![KeyOf(d, o)] = v]
    ELSE [k \in (DOMAIN d) \cup {o} |-> IF k = o THEN v ELSE d[k]]

----------------------------------------------------------------------------
(* LegendManager                                                           *)

MaxItems == 2          \* add_legend calls of the labelling specification
MaxRenderer == 1       \* renderers of the labelling specification
MaxDrawItems == 25     \* add_legend calls of the pagination specification
MaxMaxLegends == 31    \* the largest max_legends passed to draw_legends
PageSize == 10         \* the step and slice width of draw_legends

NoLabel == <<>>
NoRet == [obj |-> 0, label |-> NoLabel]
NoDraw == [called |-> FALSE, max_legends |-> 0, full_legends |-> FALSE, items |-> <<>>]

\* LegendManager.__init__
LegendInit ==
    /\ legend_count_map = [c \in ClassNames |-> 0]
    /\ legend_items = <<>>
    /\ legend = <<>>
    /\ labelled = [o \in Objects |-> NoLabel]
    /\ first_seen = <<>>
    /\ ret = NoRet
    /\ figure_layouts = <<>>
    /\ warnings = 0
    /\ draw_call = NoDraw
    /\ click_policy = "default"
    /\ add_calls = 0

\* a get_label that never consults the cache
get_label_nocache(lg, cm, o) ==
    LET class_name == ObjClass(o)
        label == Lower(class_name) \o Str(cm[class_name])
    IN  [label |-> label,
         count_map |-> [cm EXCEPT ![class_name] = @ + 1],
         legend |-> DictSet(lg, o, label)]

\* LegendManager.get_label: the returned label and the manager's state after it
get_label(lg, cm, o) ==
    IF Contains(lg, o)
    THEN [label |-> DictGet(lg, o), count_map |-> cm, legend |-> lg]
    ELSE LET class_name == ObjClass(o)
             label == Lower(class_name) \o Str(cm[class_name])
         IN  [label |-> label,
              count_map |-> [cm EXCEPT ![class_name] = @ + 1],
              legend |-> DictSet(lg, o, label)]

\* what a get_label(o) call that returned `label` leaves in the observations
Observe(o, label) ==
    /\ labelled' = IF labelled[o] = NoLabel THEN [labelled EXCEPT ![o] = label]
                   ELSE labelled
    /\ first_seen' = IF \E i \in 1..Len(first_seen) : first_seen[i] = o
                     THEN first_seen ELSE Append(first_seen, o)
    /\ ret' = [obj |-> o, label |-> label]

\* a call of LegendManager.get_label(o)
GetLabel(o) ==
    LET r == get_label(legend, legend_count_map, o) IN
    /\ legend' = r.legend
    /\ legend_count_map' = r.count_map
    /\ Observe(o, r.label)
    /\ UNCHANGED <<legend_items, add_calls>>
    /\ UNCHANGED <<draw_vars, plot_vars, source_vars, sched_vars>>

\* LegendManager.add_legend(target_object, renderer)
add_legend(o, renderer) ==
    LET r == get_label(legend, legend_count_map, o) IN
    /\ legend_items' = Append(legend_items, <<r.label, <<renderer>> >>)
    /\ legend' = DictSet(r.legend, o, r.label)
    /\ legend_count_map' = r.count_map
    /\ Observe(o, r.label)
    /\ add_calls' = add_calls + 1
    /\ UNCHANGED <<draw_vars, plot_vars, source_vars, sched_vars>>

\* seq[i:j] of Python, for 0 <= i <= j
Slice(seq, i, j) ==
    IF i >= Len(seq) THEN <<>>
    ELSE SubSeq(seq, i + 1, IF j < Len(seq) THEN j ELSE Len(seq))

\* a loop of draw_legends that stops at max_legends whatever full_legends is
RECURSIVE draw_loop_nofull(_, _, _, _)
draw_loop_nofull(items, i, max_legends, full_legends) ==
    IF i >= Len(items) + PageSize
    THEN [pages |-> <<>>, warnings |-> 0]
    ELSE IF i >= max_legends
    THEN [pages |-> <<>>, warnings |-> 1]
    ELSE LET rest == draw_loop_nofull(items, i + PageSize, max_legends, full_legends)
         IN  [pages |-> <<Slice(items, i, i + PageSize)>> \o rest.pages,
              warnings |-> rest.warnings]

\* the loop of draw_legends from index i on:
\*   for i in range(0, len(self._legend_items)+10, 10)
\* the Legend pages it adds to the figure and the warnings it logs
RECURSIVE draw_loop(_, _, _, _)
draw_loop(items, i, max_legends, full_legends) ==
    IF i >= Len(items) + PageSize
    THEN [pages |-> <<>>, warnings |-> 0]
    ELSE IF ~full_legends /\ i >= max_legends
    THEN [pages |-> <<>>, warnings |-> 1]
    ELSE LET rest == draw_loop(items, i + PageSize, max_legends, full_legends)
         IN  [pages |-> <<Slice(items, i, i + PageSize)>> \o rest.pages,
              warnings |-> rest.warnings]

\* LegendManager.draw_legends(figure, max_legends, full_legends) on a new figure
draw_legends(max_legends, full_legends) ==
    LET r == draw_loop(legend_items, 0, max_legends, full_legends) IN
    /\ figure_layouts' = r.pages
    /\ warnings' = r.warnings
    /\ click_policy' = "hide"
    /\ draw_call' = [called |-> TRUE, max_legends |-> max_legends,
                     full_legends |-> full_legends, items |-> legend_items]
    /\ UNCHANGED <<legend_vars, obs_vars, plot_vars, source_vars, sched_vars>>

----------------------------------------------------------------------------
(* CallbackSchedulingPlot                                                  *)

MaxHops == 2           \* communications of a Path
MaxGroups == 2         \* callback groups of a node or of a Sequence target

CallbackGroups == {"cbg1", "cbg2"}

\* the lists a callback_groups attribute holds: no group twice
RECURSIVE GroupLists(_)
GroupLists(n) ==
    IF n = 0 THEN {<<>>}
    ELSE GroupLists(n - 1) \cup
         {Append(l, g) : l \in {x \in GroupLists(n - 1) : Len(x) = n - 1},
                         g \in CallbackGroups}

\* Optional[List[CallbackGroup]]: None, or a list
NoneGroups == [none |-> TRUE, list |-> <<>>]
SomeGroups(l) == [none |-> FALSE, list |-> l]
OptGroupLists ==
    {NoneGroups} \cup
    {SomeGroups(l) : l \in {x \in GroupLists(MaxGroups) :
                               \A i, j \in 1..Len(x) : x[i] = x[j] => i = j}}

\* a Path is a chain of nodes; communications[i] goes from node i to node i+1
RECURSIVE NodeChains(_)
NodeChains(n) ==
    IF n = 0 THEN {}
    ELSE IF n = 1 THEN {<<g>> : g \in OptGroupLists}
    ELSE NodeChains(n - 1) \cup
         {Append(c, g) : c \in {x \in NodeChains(n - 1) : Len(x) = n - 1},
                         g \in OptGroupLists}

communications(nodes) ==
    [i \in 1..(Len(nodes) - 1) |->
        [publish_node |-> [callback_groups |-> nodes[i]],
         subscribe_node |-> [callback_groups |-> nodes[i + 1]]]]

Target(type, groups, comms, elements) ==
    [type |-> type, callback_groups |-> groups, communications |-> comms,
     elements |-> elements]

NoTarget == Target("none", NoneGroups, <<>>, <<>>)

\* CallbackGroupTypes: Application, Executor, Path, Node, CallbackGroup,
\* Sequence[CallbackGroup]
Targets ==
    {Target(t, g, <<>>, <<>>) : t \in {"Application", "Executor", "Node"},
                                g \in OptGroupLists}
    \cup {Target("Path", NoneGroups, communications(c), <<>>) :
             c \in NodeChains(MaxHops + 1)}
    \cup {Target("CallbackGroup", NoneGroups, <<>>, <<g>>) : g \in CallbackGroups}
    \cup {Target("Sequence", NoneGroups, <<>>, l) : l \in GroupLists(MaxGroups)}

\* UniqueList.append: a list that keeps the first occurrence of each element
UniqueAppend(l, x) ==
    IF \E i \in 1..Len(l) : l[i] = x THEN l ELSE Append(l, x)

\* for cbg in xs: _callback_groups.append(cbg)
RECURSIVE UniqueExtend(_, _)
UniqueExtend(l, xs) ==
    IF xs = <<>> THEN l
    ELSE UniqueExtend(UniqueAppend(l, Head(xs)), Tail(xs))

\* `node.callback_groups or []`
OrEmpty(groups) == IF groups.none THEN <<>> ELSE groups.list

\* for comm in target_objects.communications:
\*     for cbg in comm.publish_node.callback_groups or []: append
RECURSIVE PublishGroups(_, _)
PublishGroups(l, comms) ==
    IF comms = <<>> THEN l
    ELSE PublishGroups(
             UniqueExtend(l, OrEmpty(Head(comms).publish_node.callback_groups)),
             Tail(comms))

Groups(status, groups) == [status |-> status, callback_groups |-> groups]

\* CallbackSchedulingPlot._get_callback_groups
get_callback_groups(target) ==
    IF target.type \in {"Application", "Executor", "Node"}
    THEN IF target.callback_groups.none
         THEN Groups("InvalidArgumentError", <<>>)
         ELSE Groups("ok", target.callback_groups.list)
    ELSE IF target.type = "Path"
    THEN LET comms == target.communications
             pubs == PublishGroups(<<>>, comms)
         IN  IF comms = <<>>
             THEN Groups("IndexError", <<>>)     \* communications[-1] of an empty list
             ELSE LET all == UniqueExtend(pubs,
                          OrEmpty(comms[Len(comms)].subscribe_node.callback_groups))
                  IN  IF Len(all) = 0
                      THEN Groups("InvalidArgumentError", <<>>)
                      ELSE Groups("ok", all)
    ELSE IF target.type = "CallbackGroup"
    THEN Groups("ok", target.elements)           \* [target_objects]
    ELSE Groups("ok", target.elements)           \* list(target_objects)

XaxisTypes == {"system_time", "sim_time", "index", "bogus"}
ColoringRules == {"callback", "callback_group", "node", "bogus"}

NoFigCall == [method |-> "none", xaxis_type |-> "", coloring_rule |-> ""]

PlotInit ==
    /\ target_objects = NoTarget
    /\ plot_state = "none"
    /\ callback_groups = <<>>
    /\ fig_call = NoFigCall
    /\ fig_result = "none"
    /\ lib_calls = <<>>
    /\ output = "none"

\* CallbackSchedulingPlot.__init__(target_objects, visualize_lib)
CallbackSchedulingPlot(target) ==
    LET r == get_callback_groups(target) IN
    /\ plot_state = "none"
    /\ target_objects' = target
    /\ plot_state' = r.status
    /\ callback_groups' = r.callback_groups
    /\ UNCHANGED <<fig_call, fig_result, lib_calls, output>>
    /\ UNCHANGED <<legend_vars, obs_vars, draw_vars, source_vars, sched_vars>>

\* a validation that accepts "index" as the time-series plots do
validate_xaxis_type_index(xaxis_type) ==
    xaxis_type \in {"system_time", "index", "sim_time"}

\* CallbackSchedulingPlot._validate_xaxis_type: TRUE when it does not raise
validate_xaxis_type(xaxis_type) ==
    xaxis_type \in {"system_time", "sim_time"}

\* the body of CallbackSchedulingPlot.figure: its result and the calls it made of
\* visualize_lib.callback_scheduling
figure_body(xaxis_type, coloring_rule) ==
    IF ~validate_xaxis_type(xaxis_type)
    THEN [result |-> "UnsupportedTypeError", calls |-> <<>>]
    ELSE IF coloring_rule \notin {"callback", "callback_group", "node"}
    THEN [result |-> "UnsupportedTypeError", calls |-> <<>>]
    ELSE [result |-> "Figure",
          calls |-> << [callback_groups |-> callback_groups,
                        xaxis_type |-> xaxis_type,
                        coloring_rule |-> coloring_rule] >>]

\* a call of figure, show or save: show and save use the figure when figure returns
PlotCall(method, xaxis_type, coloring_rule) ==
    LET r == figure_body(xaxis_type, coloring_rule) IN
    /\ plot_state = "ok"
    /\ fig_call' = [method |-> method, xaxis_type |-> xaxis_type,
                    coloring_rule |-> coloring_rule]
    /\ fig_result' = r.result
    /\ lib_calls' = r.calls
    /\ output' = IF r.result = "Figure" /\ method # "figure" THEN method ELSE "none"
    /\ UNCHANGED <<target_objects, plot_state, callback_groups>>
    /\ UNCHANGED <<legend_vars, obs_vars, draw_vars, source_vars, sched_vars>>

\* CallbackSchedulingPlot.figure
figure(xaxis_type, coloring_rule) == PlotCall("figure", xaxis_type, coloring_rule)

\* CallbackSchedulingPlot.show
show(xaxis_type, coloring_rule) == PlotCall("show", xaxis_type, coloring_rule)

\* CallbackSchedulingPlot.save
save(xaxis_type, coloring_rule) == PlotCall("save", xaxis_type, coloring_rule)

----------------------------------------------------------------------------
(* BokehSourceInterface and LineSource                                     *)

MaxRows == 2           \* rows of a record table

\* isinstance(target_object, ...): TimerCallback and SubscriptionCallback are
\* CallbackBase subclasses; object 6 is a CallbackBase of another kind
IsTimerCallback(o) == ObjClass(o) = TimerCallback
IsSubscriptionCallback(o) == ObjClass(o) = SubscriptionCallback
IsCallbackBase(o) == ObjClass(o) \in {TimerCallback, SubscriptionCallback, CallbackBase}
IsCommunication(o) == ObjClass(o) = Communication
IsPublisherOrSubscription(o) == ObjClass(o) \in {Publisher, Subscription}

\* the objects handed to LineSource.generate
SourceObjects == {1, 4, 5, 6, 7, 8}

\* the attributes an object may carry: every hover key but the two described
\* ones, the same with callback_param, the same without symbol and topic_name
PlainAttrs == {"node_name", "callback_name", "callback_type", "symbol",
               "topic_name", "publish_node_name", "subscribe_node_name"}
AttrSets == {PlainAttrs, PlainAttrs \cup {"callback_param"},
             PlainAttrs \ {"symbol", "topic_name"}}

\* str(getattr(target_object, k)), target_object.period_ns and
\* target_object.subscribe_topic_name: values of the object, as text
AttrText(o, k) == <<"<", ObjValue(o), ".", k, ">">>
PeriodNs(o) == 100 * o
SubscribeTopicName(o) == <<"/", "t", "o", "p", "i", "c">> \o Str(o)

\* f'{k} = {v}'
Description(k, v) == [key |-> k, text |-> v]

Keys(status, keys) == [status |-> status, keys |-> keys]

\* LineSource._get_source_keys
get_source_keys(o) ==
    IF IsCallbackBase(o)
    THEN Keys("ok", <<"legend_label", "node_name", "callback_name", "callback_type",
                      "callback_param", "symbol">>)
    ELSE IF IsCommunication(o)
    THEN Keys("ok", <<"legend_label", "topic_name", "publish_node_name",
                      "subscribe_node_name">>)
    ELSE IF IsPublisherOrSubscription(o)
    THEN Keys("ok", <<"legend_label", "node_name", "topic_name">>)
    ELSE Keys("NotImplementedError", <<>>)

\* the state a source call threads through: the LegendManager and the outcome
Outcome(status, value, lg, cm, labels) ==
    [status |-> status, value |-> value, legend |-> lg, count_map |-> cm,
     labels |-> labels]

\* BokehSourceInterface._get_description(key, target_object)
get_description(key, o, lg, cm) ==
    IF key = "callback_param"
    THEN IF IsTimerCallback(o)
         THEN Outcome("ok", Description("period_ns", Str(PeriodNs(o))), lg, cm, <<>>)
         ELSE IF IsSubscriptionCallback(o)
         THEN Outcome("ok", Description("subscribe_topic_name", SubscribeTopicName(o)),
                      lg, cm, <<>>)
         \* no branch binds `description`: `return description` raises
         ELSE Outcome("UnboundLocalError", Description("", <<>>), lg, cm, <<>>)
    ELSE IF key = "legend_label"
    THEN LET r == get_label(lg, cm, o)
         IN  Outcome("ok", Description("legend_label", r.label), r.legend, r.count_map,
                     <<r.label>>)
    ELSE Outcome("NotImplementedError", Description("", <<>>), lg, cm, <<>>)

\* the loop of _get_data_dict over the keys left, data_dict so far in `acc`
RECURSIVE data_dict_loop(_, _, _, _, _, _, _)
data_dict_loop(keys, o, attrs, acc, lg, cm, labels) ==
    IF keys = <<>> THEN Outcome("ok", acc, lg, cm, labels)
    ELSE LET k == Head(keys) IN
         IF k \in attrs
         THEN data_dict_loop(Tail(keys), o, attrs,
                  acc \o << <<k, Description(k, AttrText(o, k))>> >>, lg, cm, labels)
         ELSE LET d == get_description(k, o, lg, cm) IN
              IF d.status # "ok"
              THEN Outcome(d.status, <<>>, d.legend, d.count_map, labels \o d.labels)
              ELSE data_dict_loop(Tail(keys), o, attrs,
                       acc \o << <<k, d.value>> >>, d.legend, d.count_map,
                       labels \o d.labels)

\* BokehSourceInterface._get_data_dict(target_object): the (key, value) pairs
\* in key order
get_data_dict(o, attrs, lg, cm) ==
    LET ks == get_source_keys(o) IN
    IF ks.status # "ok" THEN Outcome(ks.status, <<>>, lg, cm, <<>>)
    ELSE data_dict_loop(ks.keys, o, attrs, <<>>, lg, cm, <<>>)

\* Optional numbers of a column series: None, or a value
None == <<>>
Some(v) == <<v>>

\* a number m * 10^e: ints have e = 0, and v*10**(-6) is Num(v, -6)
Num(m, e) == [m |-> m, e |-> e]

TsColumn == <<"t", "i", "m", "e", "s", "t", "a", "m", "p">>
ValueColumns == { <<"c", "b", "_", "L", "a", "t", "e", "n", "c", "y">>,
                  <<"P", "E", "R", "I", "O", "D", "_", "n", "s">>,
                  <<"f", "r", "e", "q", "u", "e", "n", "c", "y">> }
TsCells == {None, Some(10), Some(1000000010)}
ValueCells == {None, Some(0), Some(1000000)}

\* the series of one column with up to n rows
RECURSIVE Series(_, _)
Series(cells, n) ==
    IF n = 0 THEN {<<>>}
    ELSE Series(cells, n - 1) \cup
         {Append(s, c) : s \in {x \in Series(cells, n - 1) : Len(x) = n - 1},
                         c \in cells}

\* RecordsInterface: two columns, one cell of each per row
RecordTables ==
    {t \in {[columns |-> <<TsColumn, vc>>, series |-> <<ts, vs>>] :
                vc \in ValueColumns,
                ts \in Series(TsCells, MaxRows),
                vs \in Series(ValueCells, MaxRows)} :
        Len(t.series[1]) = Len(t.series[2])}

\* `sub in s` for two strings
IsSubstring(sub, s) ==
    \E i \in 0..(Len(s) - Len(sub)) : SubSeq(s, i + 1, i + Len(sub)) = sub

\* [_ for _ in target_seq if _ is not None], unwrapped
RECURSIVE NotNoneList(_)
NotNoneList(seq) ==
    IF seq = <<>> THEN <<>>
    ELSE IF Head(seq) = None THEN NotNoneList(Tail(seq))
    ELSE <<Head(seq)[1]>> \o NotNoneList(Tail(seq))

\* an ensure_not_none without its assert
ensure_not_none_noassert(target_seq) ==
    [status |-> "ok", list |-> NotNoneList(target_seq)]

\* ensure_not_none of LineSource._get_x_y
ensure_not_none(target_seq) ==
    LET not_none_list == NotNoneList(target_seq) IN
    IF Len(target_seq) = Len(not_none_list)
    THEN [status |-> "ok", list |-> not_none_list]
    ELSE [status |-> "AssertionError", list |-> <<>>]

XY(status, x, y) == [status |-> status, x |-> x, y |-> y]

\* a test of the column name that does not fold the letter case
is_time_metric_cased(value_column) ==
    \/ IsSubstring(<<"l","a","t","e","n","c","y">>, value_column)
    \/ IsSubstring(<<"p","e","r","i","o","d">>, value_column)

\* 'latency' in value_column.lower() or 'period' in value_column.lower()
is_time_metric(value_column) ==
    \/ IsSubstring(<<"l","a","t","e","n","c","y">>, Lower(value_column))
    \/ IsSubstring(<<"p","e","r","i","o","d">>, Lower(value_column))

\* LineSource._get_x_y(timeseries_records)
get_x_y(records) ==
    LET ts_column == records.columns[1]
        value_column == records.columns[2]
        timestamps == ensure_not_none(records.series[1])
        values == ensure_not_none(records.series[2])
    IN
    IF timestamps.status # "ok" THEN XY(timestamps.status, <<>>, <<>>)
    ELSE IF values.status # "ok" THEN XY(values.status, <<>>, <<>>)
    ELSE LET scaled ==
                 IF is_time_metric(value_column)
                 THEN [i \in 1..Len(values.list) |-> Num(values.list[i], -6)]
                 ELSE [i \in 1..Len(values.list) |-> Num(values.list[i], 0)]
         IN
         IF self_xaxis_type = "system_time"
         THEN XY("ok", [i \in 1..Len(timestamps.list) |->
                           Num(timestamps.list[i] - self_frame_min, -9)], scaled)
         ELSE IF self_xaxis_type = "index"
         THEN XY("ok", [i \in 1..Len(scaled) |-> Num(i - 1, 0)], scaled)
         ELSE IF self_xaxis_type = "sim_time"
         THEN XY("ok", [i \in 1..Len(timestamps.list) |->
                           Num(timestamps.list[i], 0)], scaled)
         \* no branch binds x_item: `return x_item, y_item` raises
         ELSE XY("UnboundLocalError", <<>>, <<>>)

\* min(len(a), len(b)): the number of pairs of zip(a, b)
ZipLen(a, b) == IF Len(a) < Len(b) THEN Len(a) ELSE Len(b)

\* the value data_dict holds for key k
DictValue(data_dict, k) ==
    data_dict[CHOOSE i \in 1..Len(data_dict) : data_dict[i][1] = k][2]

\* the ColumnDataSource after the stream loop of generate: one entry of each
\* column per (x, y) pair
Streamed(keys, data_dict, x_item, y_item) ==
    LET n == ZipLen(x_item, y_item) IN
    [k \in {"x", "y"} \cup {keys[i] : i \in 1..Len(keys)} |->
        IF k = "x" THEN SubSeq(x_item, 1, n)
        ELSE IF k = "y" THEN SubSeq(y_item, 1, n)
        ELSE [i \in 1..n |-> DictValue(data_dict, k)]]

NoSource == <<>>
NoGenCall == [called |-> FALSE, target_object |-> 0, attrs |-> {},
              records |-> [columns |-> <<>>, series |-> <<>>]]
NoGenResult == [status |-> "none", source |-> NoSource]

\* LineSource.__init__(frame_min, xaxis_type, legend_manager)
LineSource(frame_min, xaxis_type) ==
    /\ self_frame_min = frame_min
    /\ self_xaxis_type = xaxis_type
    /\ gen_call = NoGenCall
    /\ gen_result = NoGenResult

\* what the get_label calls of a source call leave in the observations
ObserveAll(o, labels) ==
    IF labels = <<>> THEN UNCHANGED <<labelled, first_seen, ret>>
    ELSE Observe(o, labels[Len(labels)])

\* LineSource.generate(target_object, timeseries_records) on an object that
\* carries the attributes attrs
generate(o, attrs, records) ==
    LET keys == get_source_keys(o)
        data_dict == get_data_dict(o, attrs, legend, legend_count_map)
        xy == get_x_y(records)
        status == IF keys.status # "ok" THEN keys.status
                  ELSE IF data_dict.status # "ok" THEN data_dict.status
                  ELSE xy.status
    IN
    /\ gen_call' = [called |-> TRUE, target_object |-> o, attrs |-> attrs,
                    records |-> records]
    /\ gen_result' = [status |-> status,
                      source |-> IF status = "ok"
                                 THEN Streamed(keys.keys, data_dict.value, xy.x, xy.y)
                                 ELSE NoSource]
    /\ legend' = IF keys.status = "ok" THEN data_dict.legend ELSE legend
    /\ legend_count_map' = IF keys.status = "ok" THEN data_dict.count_map
                           ELSE legend_count_map
    /\ ObserveAll(o, IF keys.status = "ok" THEN data_dict.labels ELSE <<>>)
    /\ UNCHANGED <<legend_items, add_calls, self_xaxis_type, self_frame_min>>
    /\ UNCHANGED <<draw_vars, plot_vars, sched_vars>>

----------------------------------------------------------------------------
(* RectValues, CallbackSchedRectSource and CallbackSchedBarSource.         *)
(* Vertical positions are counted in tenths: 0.3 is 3 and -1.5 is -15.     *)

MaxUpdates == 2        \* update_rect_y_base calls
MaxBands == 2          \* generate calls that emit a source with a point
MaxRectRows == 1       \* rows of a latency table

RECT_HEIGHT == 3       \* CallbackSchedRectSource.RECT_HEIGHT = 0.3
RECT_Y_STEP == -15     \* CallbackSchedRectSource._RECT_Y_STEP = -1.5
BAR_HALF_HEIGHT == 5   \* rect_y_base - 0.5, rect_y_base + 0.5

Abs(n) == IF n < 0 THEN -n ELSE n

\* RectValues(callback_start, callback_end, y_min, y_max) and its properties:
\* x = mean of the times, y = mean of the band (tenths), width and height
RectValues(callback_start, callback_end, y_min, y_max) ==
    [x |-> Num(5 * (callback_start + callback_end), -1),
     y |-> (y_min + y_max) \div 2,
     width |-> Abs(callback_start - callback_end),
     height |-> Abs(y_min - y_max)]

\* ClockConverter.convert: a linear map of the time
Convert(t) == 2 * t + 7

\* the callbacks handed to the scheduling sources
SchedObjects == {1, 4, 7}

\* to_dataframe(shaper=clip): rows of (first column, last column)
RectRows == {<<0, 1000000>>, <<1000000, 1000000>>}
LatencyTables == Series(RectRows, MaxRectRows)

NoSchedResult == [kind |-> "none", status |-> "none", source |-> NoSource]

\* CallbackSchedRectSource.__init__(clip, legend_manager, converter)
CallbackSchedRectSource(has_converter) ==
    /\ rect_y_base = 0
    /\ converter = has_converter
    /\ update_calls = 0
    /\ bands = <<>>
    /\ sched_result = NoSchedResult

\* CallbackSchedBarSource.__init__(legend_manager, frame_min, frame_max)
CallbackSchedBarSource(frame_min, frame_max) ==
    bar_frame = [frame_min |-> frame_min, frame_max |-> frame_max]

\* CallbackSchedRectSource._get_source_keys
rect_get_source_keys(o) ==
    IF IsCallbackBase(o)
    THEN Keys("ok", <<"legend_label", "callback_start", "callback_end", "latency">>)
    ELSE Keys("NotImplementedError", <<>>)

\* CallbackSchedBarSource._get_source_keys
bar_get_source_keys(o) ==
    IF IsCallbackBase(o)
    THEN Keys("ok", <<"legend_label", "node_name", "callback_name", "callback_type",
                      "callback_param", "symbol">>)
    ELSE Keys("NotImplementedError", <<>>)

\* the row that one latency_table row streams into the rect source
RectRow(row, base, has_converter, label) ==
    LET callback_start == IF has_converter THEN Convert(row[1]) ELSE row[1]
        callback_end == IF has_converter THEN Convert(row[2]) ELSE row[2]
        rect == RectValues(callback_start, callback_end,
                           base - RECT_HEIGHT, base + RECT_HEIGHT)
    IN  [legend_label |-> Description("legend_label", label),
         x |-> rect.x, y |-> rect.y, width |-> rect.width, height |-> rect.height,
         callback_start |-> Description("callback_start", Num(callback_start, 0)),
         callback_end |-> Description("callback_end", Num(callback_end, 0)),
         latency |-> Description("latency", Num(callback_end - callback_start, -6))]

RectColumns == {"x", "y", "width", "height",
                "legend_label", "callback_start", "callback_end", "latency"}

\* the band a generated source lies in
Band(kind, o, rect, y_min, y_max) ==
    [kind |-> kind, callback |-> o, updates |-> update_calls,
     y |-> rect.y, height |-> rect.height, y_min |-> y_min, y_max |-> y_max]

\* CallbackSchedRectSource.generate(callback) on a callback whose clipped
\* latency table is latency_table
rect_generate(o, latency_table) ==
    LET keys == rect_get_source_keys(o)
        called == keys.status = "ok" /\ latency_table # <<>>
        r == get_label(legend, legend_count_map, o)
        rows == [i \in 1..Len(latency_table) |->
                    RectRow(latency_table[i], rect_y_base, converter, r.label)]
    IN
    /\ sched_result' =
          [kind |-> "rect", status |-> keys.status,
           source |-> IF keys.status = "ok"
                      THEN [k \in RectColumns |->
                               [i \in 1..Len(rows) |-> rows[i][k]]]
                      ELSE NoSource]
    /\ legend' = IF called THEN r.legend ELSE legend
    /\ legend_count_map' = IF called THEN r.count_map ELSE legend_count_map
    /\ ObserveAll(o, IF called THEN <<r.label>> ELSE <<>>)
    /\ bands' = IF called
                THEN Append(bands, Band("rect", o, rows[1],
                                        rect_y_base - RECT_HEIGHT,
                                        rect_y_base + RECT_HEIGHT))
                ELSE bands
    /\ UNCHANGED <<legend_items, add_calls, rect_y_base, converter, bar_frame,
                   update_calls>>
    /\ UNCHANGED <<draw_vars, plot_vars, source_vars>>

\* CallbackSchedBarSource.generate(callback, rect_y_base) on a callback that
\* carries the attributes attrs
bar_generate(o, attrs, y_base) ==
    LET keys == bar_get_source_keys(o)
        data_dict == IF keys.status = "ok"
                     THEN data_dict_loop(keys.keys, o, attrs, <<>>,
                                         legend, legend_count_map, <<>>)
                     ELSE Outcome(keys.status, <<>>, legend, legend_count_map, <<>>)
        rect == RectValues(bar_frame.frame_min, bar_frame.frame_max,
                           y_base - BAR_HALF_HEIGHT, y_base + BAR_HALF_HEIGHT)
    IN
    /\ sched_result' =
          [kind |-> "bar", status |-> data_dict.status,
           source |-> IF data_dict.status = "ok"
                      THEN [k \in {"x", "y", "width", "height"}
                                  \cup {keys.keys[i] : i \in 1..Len(keys.keys)} |->
                               IF k = "x" THEN <<rect.x>>
                               ELSE IF k = "y" THEN <<rect.y>>
                               ELSE IF k = "width" THEN <<rect.width>>
                               ELSE IF k = "height" THEN <<rect.height>>
                               ELSE <<DictValue(data_dict.value, k)>>]
                      ELSE NoSource]
    /\ legend' = data_dict.legend
    /\ legend_count_map' = data_dict.count_map
    /\ ObserveAll(o, data_dict.labels)
    /\ bands' = IF data_dict.status = "ok"
                THEN Append(bands, Band("bar", o, rect, y_base - BAR_HALF_HEIGHT,
                                        y_base + BAR_HALF_HEIGHT))
                ELSE bands
    /\ UNCHANGED <<legend_items, add_calls, rect_y_base, converter, bar_frame,
                   update_calls>>
    /\ UNCHANGED <<draw_vars, plot_vars, source_vars>>

\* an update by a step of -0.5, shorter than the height of a band
rect_y_step_short(base) == base - 5

\* self._rect_y_base += self._RECT_Y_STEP
rect_y_step(base) == base + RECT_Y_STEP

\* CallbackSchedRectSource.update_rect_y_base
update_rect_y_base ==
    /\ rect_y_base' = rect_y_step(rect_y_base)
    /\ update_calls' = update_calls + 1
    /\ UNCHANGED <<converter, bar_frame, bands, sched_result>>
    /\ UNCHANGED <<legend_vars, obs_vars, draw_vars, plot_vars, source_vars>>

----------------------------------------------------------------------------
(* The specifications                                                      *)

vars == <<legend_vars, obs_vars, draw_vars, plot_vars, source_vars, sched_vars>>

\* the x-axis modes and frame minima a LineSource is built with
LineXaxisTypes == {"system_time", "index", "sim_time"}
FrameMins == {0, 10}

\* labelling: get_label and add_legend calls on a LegendManager
Init ==
    /\ LegendInit
    /\ PlotInit
    /\ LineSource(0, "system_time")
    /\ CallbackSchedRectSource(FALSE)
    /\ CallbackSchedBarSource(0, 1000000)

Next ==
    \/ \E o \in LegendObjects : GetLabel(o)
    \/ \E o \in LegendObjects, renderer \in 1..MaxRenderer :
           Len(legend_items) < MaxItems /\ add_legend(o, renderer)

Spec == Init /\ [][Next]_vars

\* pagination: add_legend calls, each with a new renderer, and draw_legends calls
NextDraw ==
    \/ \E o \in DrawObjects :
           Len(legend_items) < MaxDrawItems /\ add_legend(o, Len(legend_items) + 1)
    \/ \E max_legends \in 1..MaxMaxLegends, full_legends \in BOOLEAN :
           draw_legends(max_legends, full_legends)

SpecDraw == Init /\ [][NextDraw]_vars

\* the callback scheduling plot: construction, then figure, show and save
NextPlot ==
    \/ \E target \in Targets : CallbackSchedulingPlot(target)
    \/ \E xt \in XaxisTypes, cr \in ColoringRules : figure(xt, cr)
    \/ \E xt \in XaxisTypes, cr \in ColoringRules : show(xt, cr)
    \/ \E xt \in XaxisTypes, cr \in ColoringRules : save(xt, cr)

SpecPlot == Init /\ [][NextPlot]_vars

\* line sources: a LineSource of any mode, and one generate call on it
InitSource ==
    /\ LegendInit
    /\ PlotInit
    /\ CallbackSchedRectSource(FALSE)
    /\ CallbackSchedBarSource(0, 1000000)
    /\ \E fm \in FrameMins, xt \in LineXaxisTypes : LineSource(fm, xt)

NextSource ==
    /\ ~gen_call.called
    /\ \E o \in SourceObjects, attrs \in AttrSets, records \in RecordTables :
          generate(o, attrs, records)

SpecSource == InitSource /\ [][NextSource]_vars

\* scheduling sources: rect and bar generate calls and band updates, the bar
\* generate taking the rect source's rect_y_base
InitRect ==
    /\ LegendInit
    /\ PlotInit
    /\ LineSource(0, "system_time")
    /\ \E has_converter \in BOOLEAN : CallbackSchedRectSource(has_converter)
    /\ CallbackSchedBarSource(0, 1000000)

NextRect ==
    \/ /\ Len(bands) < MaxBands
       /\ \E o \in SchedObjects, latency_table \in LatencyTables :
             rect_generate(o, latency_table)
    \/ /\ Len(bands) < MaxBands
       /\ \E o \in SchedObjects, attrs \in AttrSets :
             bar_generate(o, attrs, rect_y_base)
    \/ update_calls < MaxUpdates /\ update_rect_y_base

SpecRect == InitRect /\ [][NextRect]_vars

----------------------------------------------------------------------------
(* Properties                                                              *)

\* the number of earlier positions of first_seen that hold an object of the
\* class of the object at position i
EarlierOfClass(i) ==
    Cardinality({j \in 1..(i - 1) : ObjClass(first_seen[j]) = ObjClass(first_seen[i])})

\* C1: once get_label(o) has returned a label, the cache keeps that label for o
\* and every later get_label(o), direct or inside add_legend, returns it.
C1_LabelStable ==
    /\ \A o \in Objects :
          labelled[o] # NoLabel =>
              Contains(legend, o) /\ DictGet(legend, o) = labelled[o]
    /\ ret.obj # 0 => ret.label = labelled[ret.obj]

\* an object was labelled first, two others after it, it was registered with
\* add_legend, and the last get_label was again on it
C1_Witness ==
    /\ Len(first_seen) >= 3
    /\ ret.obj = first_seen[1]
    /\ Len(legend_items) = MaxItems
    /\ legend_items[1][1] = labelled[first_seen[1]]
    /\ legend_items[2][1] # labelled[first_seen[1]]

\* C2: the n-th distinct object of a kind to be labelled (n from 0) holds the
\* lowercased kind name followed by n.
C2_NthOfKind ==
    \A i \in 1..Len(first_seen) :
        labelled[first_seen[i]]
            = Lower(ObjClass(first_seen[i])) \o Str(EarlierOfClass(i))

\* C3: two distinct object instances never hold the same label.
C3_LabelsUnique ==
    \A a, b \in Objects :
        (a # b /\ labelled[a] # NoLabel /\ labelled[b] # NoLabel)
            => labelled[a] # labelled[b]

\* the number of legend entries in a sequence of pages
RECURSIVE Emitted(_)
Emitted(pages) ==
    IF pages = <<>> THEN 0 ELSE Len(Head(pages)) + Emitted(Tail(pages))

\* the entries of a sequence of pages, in order
RECURSIVE Flatten(_)
Flatten(pages) ==
    IF pages = <<>> THEN <<>> ELSE Head(pages) \o Flatten(Tail(pages))

\* C4: without full_legends, draw_legends emits at most max_legends entries.
C4_AtMostMaxLegends ==
    (draw_call.called /\ ~draw_call.full_legends)
        => Emitted(figure_layouts) <= draw_call.max_legends

\* C5: without full_legends, draw_legends logs one warning when an entry was
\* left out of the figure and none when every entry was emitted.
C5_WarningIffTruncated ==
    (draw_call.called /\ ~draw_call.full_legends)
        => warnings = (IF Emitted(figure_layouts) < Len(draw_call.items)
                       THEN 1 ELSE 0)

\* C6: with full_legends, draw_legends emits every registered entry once, in
\* registration order, in consecutive pages of at most 10, and logs no warning;
\* every add_legend call registered one entry.
C6_FullLegends ==
    /\ Len(legend_items) = add_calls
    /\ (draw_call.called /\ draw_call.full_legends) =>
          /\ Flatten(figure_layouts) = draw_call.items
          /\ \A k \in 1..Len(figure_layouts) :
                /\ Len(figure_layouts[k]) <= PageSize
                /\ figure_layouts[k]
                     = Slice(draw_call.items, (k - 1) * PageSize, k * PageSize)
          /\ warnings = 0

\* a full_legends call on more entries than max_legends and not a multiple of 10,
\* all sharing one label
C6_Witness ==
    /\ draw_call.called /\ draw_call.full_legends
    /\ Len(draw_call.items) = 25
    /\ draw_call.max_legends = 20
    /\ Emitted(figure_layouts) = 25
    /\ \A i \in 1..25 : draw_call.items[i][1] = draw_call.items[1][1]

RECURSIVE HopGroups(_)
HopGroups(comms) ==
    IF comms = <<>> THEN <<>>
    ELSE OrEmpty(Head(comms).publish_node.callback_groups)
         \o (IF Len(comms) = 1
             THEN OrEmpty(Head(comms).subscribe_node.callback_groups)
             ELSE HopGroups(Tail(comms)))

\* a sequence without the later occurrences of its elements
RECURSIVE FirstOccurrences(_)
FirstOccurrences(seq) ==
    IF seq = <<>> THEN <<>>
    ELSE LET front == SubSeq(seq, 1, Len(seq) - 1)
             last == seq[Len(seq)]
         IN  IF \E i \in 1..Len(front) : front[i] = last
             THEN FirstOccurrences(front)
             ELSE Append(FirstOccurrences(front), last)

\* C8: for a Path, _get_callback_groups returns the de-duplicated union in
\* first-occurrence order, and fails with InvalidArgumentError when it is empty.
C8_PathUnion ==
    (plot_state # "none" /\ target_objects.type = "Path") =>
        LET union == FirstOccurrences(HopGroups(target_objects.communications)) IN
        IF union = <<>>
        THEN plot_state = "InvalidArgumentError"
        ELSE plot_state = "ok" /\ callback_groups = union

\* a cell of the timestamp column or of the metric column is None
HasNone(records) ==
    \E c \in 1..2 : \E i \in 1..Len(records.series[c]) : records.series[c][i] = None

\* the key has a description rule that yields a value for the object
Describable(o, k) ==
    \/ k = "legend_label"
    \/ k = "callback_param" /\ (IsTimerCallback(o) \/ IsSubscriptionCallback(o))

\* the object is of a plotted kind and each of its hover keys is an attribute
\* of it or has a description rule that yields a value
HoverResolves(o, attrs) ==
    LET ks == get_source_keys(o) IN
    /\ ks.status = "ok"
    /\ \A i \in 1..Len(ks.keys) : ks.keys[i] \in attrs \/ Describable(o, ks.keys[i])

\* C9: a generate call on a table with a missing value in either column returns
\* no source, and fails with AssertionError once the hover data of the object is
\* resolved; on a table without missing value it returns a source whose every
\* column holds one entry per row.
C9_MissingValue ==
    gen_call.called =>
        LET records == gen_call.records
            rows == Len(records.series[1])
        IN
        /\ HasNone(records) =>
              gen_result.status # "ok" /\ gen_result.source = NoSource
        /\ HoverResolves(gen_call.target_object, gen_call.attrs) =>
              IF HasNone(records)
              THEN gen_result.status = "AssertionError"
              ELSE /\ gen_result.status = "ok"
                   /\ \A k \in DOMAIN gen_result.source :
                         Len(gen_result.source[k]) = rows

\* a call on a two-row table whose only missing value is the last metric cell
C9_Witness ==
    /\ gen_call.called
    /\ HoverResolves(gen_call.target_object, gen_call.attrs)
    /\ Len(gen_call.records.series[2]) = 2
    /\ gen_call.records.series[1][1] # None
    /\ gen_call.records.series[1][2] # None
    /\ gen_call.records.series[2][1] # None
    /\ gen_call.records.series[2][2] = None
    /\ gen_result.status = "AssertionError"
    /\ gen_result.source = NoSource

\* C10: callback_param without such an attribute resolves to the period of a
\* TimerCallback and to the subscribed topic of a SubscriptionCallback; a key
\* with neither an attribute nor a rule that yields a value, callback_param of
\* another callback kind included, fails with NotImplementedError.
C10_CallbackParam ==
    gen_call.called =>
        LET o == gen_call.target_object
            attrs == gen_call.attrs
        IN
        /\ (get_source_keys(o).status = "ok" /\ ~HoverResolves(o, attrs)) =>
              gen_result.status = "NotImplementedError"
        /\ ( /\ gen_result.status = "ok"
             /\ IsCallbackBase(o)
             /\ "callback_param" \notin attrs
             /\ Len(gen_call.records.series[1]) >= 1 ) =>
              /\ IsTimerCallback(o) \/ IsSubscriptionCallback(o)
              /\ IsTimerCallback(o) =>
                    gen_result.source["callback_param"][1]
                        = Description("period_ns", Str(PeriodNs(o)))
              /\ IsSubscriptionCallback(o) =>
                    gen_result.source["callback_param"][1]
                        = Description("subscribe_topic_name", SubscribeTopicName(o))

\* the vertical extent of a generated source, from its y and height
BandLow(b) == b.y - b.height \div 2
BandHigh(b) == b.y + b.height \div 2

\* C11 (state part): the base is -1.5 * k after k update_rect_y_base calls;
\* every generated source lies around the base of the time, a rect source in
\* [base - 0.3, base + 0.3] and a bar source in [base - 0.5, base + 0.5]; and
\* sources generated after different numbers of updates have different
\* offsets, the later one lower, and bands that do not overlap
C11_BandsState ==
    /\ rect_y_base = -15 * update_calls
    /\ \A i \in 1..Len(bands) :
          LET b == bands[i]
              half == IF b.kind = "rect" THEN 3 ELSE 5
          IN  /\ b.y = -15 * b.updates
              /\ b.y_min = b.y - half /\ b.y_max = b.y + half
              /\ BandLow(b) = b.y_min /\ BandHigh(b) = b.y_max
    /\ \A i, j \in 1..Len(bands) :
          bands[i].updates < bands[j].updates =>
              /\ bands[j].y < bands[i].y
              /\ BandHigh(bands[j]) < BandLow(bands[i])

\* C11 (step part): the base changes only in an update_rect_y_base call, by
\* -1.5, and a generate call leaves it unchanged
C11_BandsStep ==
    /\ rect_y_base' # rect_y_base =>
          /\ update_calls' = update_calls + 1
          /\ rect_y_base' = rect_y_base - 15
          /\ sched_result' = sched_result /\ bands' = bands
    /\ (sched_result' # sched_result \/ bands' # bands) =>
          rect_y_base' = rect_y_base

\* C11: in CallbackSchedRectSource the band base starts at 0 and changes only
\* through update_rect_y_base, by the fixed step -1.5: after k calls it is
\* -1.5 * k, generate leaves it unchanged, and with an update between the
\* callbacks every callback gets a distinct offset that is never reused, the
\* rect bands [base - 0.3, base + 0.3] and the bar bands [base - 0.5,
\* base + 0.5] of different callbacks never overlapping
C11_Bands == (rect_y_base = 0) /\ []C11_BandsState /\ [][C11_BandsStep]_vars

\* a rect source of one callback and a bar source of another, generated with
\* an update between them, after two updates in all
C11_Witness ==
    /\ update_calls = 2
    /\ \E i, j \in 1..Len(bands) :
          /\ bands[i].kind = "rect" /\ bands[j].kind = "bar"
          /\ bands[i].callback # bands[j].callback
          /\ bands[i].updates < bands[j].updates

\* C12: a generate call on N rows without missing value, for an object whose
\* hover data resolves, returns a source whose every column has N entries, row
\* by row in input order: x is the row number from 0 in mode 'index', the
\* timestamp in mode 'sim_time' and (timestamp - frame minimum) * 10^-9 in mode
\* 'system_time'; y is the metric value, times 10^-6 exactly for the columns
\* whose name holds 'latency' or 'period' in some letter case (cb_Latency and
\* PERIOD_ns, not frequency); a hover column repeats one description.
C12_PointValues ==
    (/\ gen_call.called
     /\ ~HasNone(gen_call.records)
     /\ HoverResolves(gen_call.target_object, gen_call.attrs)) =>
        LET records == gen_call.records
            N == Len(records.series[1])
            source == gen_result.source
            scaled == records.columns[2] \in
                         {<<"c","b","_","L","a","t","e","n","c","y">>,
                          <<"P","E","R","I","O","D","_","n","s">>}
        IN
        /\ gen_result.status = "ok"
        /\ {"x", "y"} \subseteq DOMAIN source
        /\ \A k \in DOMAIN source : Len(source[k]) = N
        /\ \A i \in 1..N :
              LET ts == records.series[1][i][1]
                  v == records.series[2][i][1]
              IN  /\ self_xaxis_type = "index" => source["x"][i] = Num(i - 1, 0)
                  /\ self_xaxis_type = "sim_time" => source["x"][i] = Num(ts, 0)
                  /\ self_xaxis_type = "system_time" =>
                        source["x"][i] = Num(ts - self_frame_min, -9)
                  /\ source["y"][i] = IF scaled THEN Num(v, -6) ELSE Num(v, 0)
                  /\ \A k \in DOMAIN source \ {"x", "y"} : source[k][i] = source[k][1]

\* the timestamps 10 and 10^9 + 10 of a frame that starts at 10 plotted in
\* mode 'system_time' at 0 s and 1 s, with the latency 10^6 ns as 1 ms
C12_Witness ==
    /\ gen_call.called
    /\ gen_result.status = "ok"
    /\ self_xaxis_type = "system_time" /\ self_frame_min = 10
    /\ gen_call.records.columns[2] = <<"c","b","_","L","a","t","e","n","c","y">>
    /\ gen_call.records.series[1] = <<Some(10), Some(1000000010)>>
    /\ gen_call.records.series[2] = <<Some(1000000), Some(0)>>
    /\ gen_result.source["x"] = <<Num(0, -9), Num(1000000000, -9)>>
    /\ gen_result.source["y"] = <<Num(1000000, -6), Num(0, -6)>>

====
